---------------------------- MODULE Spec2Model ----------------------------
(***************************************************************************)
(* Model of the file matching and traversal engine of tokencount           *)
(* (src/src/files.rs): glob pattern groups, PathMatcher's inclusion        *)
(* decision, the iterative directory walk of get_matched_files and its     *)
(* final sort.                                                             *)
(*                                                                         *)
(* A path is the sequence of its components (Path::components()); a        *)
(* component is the sequence of the characters of its name, and the        *)
(* component "." (Component::CurDir) is the empty sequence.  Characters    *)
(* are small integers: 1 is 'a', 2 is 'b'.                                 *)
(***************************************************************************)
EXTENDS Integers, Sequences, FiniteSets, TLC

\* ------------------------------------------------------------- bounds ----
\* Longest list of initial paths given to get_matched_files.
MaxPaths == 2
\* Symbolic links the operating system follows while resolving one path
\* before it gives up with ELOOP (40 on Linux).
MaxSymlinks == 1

\* ---------------------------------------------------- names and globs ---
CurDir == <<>>
NameAB == <<1, 2>>
NameA == <<1>>
NameB == <<2>>
NameBA == <<2, 1>>
NameBB == <<2, 2>>

\* glob tokens: a literal character, '?', '*', and an unclosed '[' (which
\* makes the pattern an invalid glob)
Lit(c) == [t |-> "char", c |-> c]
AnyChar == [t |-> "?", c |-> 0]
AnySeq == [t |-> "*", c |-> 0]
OpenBracket == [t |-> "[", c |-> 0]

\* ---------------------------------------------------------- filesystem ---
\* The tree the walk runs on, relative to the working directory:
\*   ./ab        directory
\*   ./ab/a      a regular file, a special file (fifo), a symlink to the
\*               file ./b, a symlink to its own parent ./ab, a dangling
\*               symlink, or nothing at all, depending on fs.xkind
\*   ./ab/ba     regular file
\*   ./ab/bb     directory, unreadable when ~fs.ereadable
\*   ./ab/bb/ba  regular file
\*   ./b         regular file
NoNode == "none"
NodeCwd == "cwd"
NodeD == "D"
NodeF0 == "F0"
NodeX == "X"
NodeF1 == "F1"
NodeE == "E"
NodeF2 == "F2"

XKinds == {"file", "special", "linkfile", "linkdir", "dangling", "absent"}
FileSystems ==
    {[xkind |-> k, ereadable |-> TRUE] : k \in XKinds}
        \cup {[xkind |-> "file", ereadable |-> FALSE]}

VARIABLES fs, initial_files, config, pc, idx, folder_stack, found_files,
          result, ret

vars == <<fs, initial_files, config, pc, idx, folder_stack, found_files,
          result, ret>>

\* lstat of a node: what the directory entry itself is
NodeKind(n) ==
    IF n \in {NodeCwd, NodeD, NodeE} THEN "dir"
    ELSE IF n \in {NodeF0, NodeF1, NodeF2} THEN "file"
    ELSE IF n = NodeX /\ fs.xkind \in {"linkfile", "linkdir", "dangling"}
         THEN "symlink"
    ELSE IF n = NodeX /\ fs.xkind \in {"file", "special"} THEN fs.xkind
    ELSE "none"

\* where a symlink node points (NoNode: the target does not exist)
LinkTarget(n) ==
    IF n = NodeX /\ fs.xkind = "linkfile" THEN NodeF0
    ELSE IF n = NodeX /\ fs.xkind = "linkdir" THEN NodeD
    ELSE NoNode

\* the names a directory node holds
ChildNames(n) ==
    IF n = NodeCwd THEN {NameAB, NameB}
    ELSE IF n = NodeD
         THEN (IF fs.xkind = "absent" THEN {} ELSE {NameA}) \cup {NameBA, NameBB}
    ELSE IF n = NodeE THEN {NameBA}
    ELSE {}

Child(n, name) ==
    IF n = NodeCwd /\ name = NameAB THEN NodeD
    ELSE IF n = NodeCwd /\ name = NameB THEN NodeF0
    ELSE IF n = NodeD /\ name = NameA /\ fs.xkind # "absent" THEN NodeX
    ELSE IF n = NodeD /\ name = NameBA THEN NodeF1
    ELSE IF n = NodeD /\ name = NameBB THEN NodeE
    ELSE IF n = NodeE /\ name = NameBA THEN NodeF2
    ELSE NoNode

\* Path resolution as the operating system does it: walk the components
\* from the working directory, follow symlinks (the last one only when
\* followLast), fail on a missing name, on a non-directory in the middle
\* and after more than MaxSymlinks symlinks.
\* One component: from the node reached so far (and the number of symlinks
\* followed) to the next one.
ResolveStep(at, name, isLast, followLast) ==
    LET c == Child(at.node, name) IN
    IF NodeKind(at.node) # "dir" THEN [node |-> NoNode, nlinks |-> at.nlinks]
    ELSE IF name = CurDir THEN at
    ELSE IF NodeKind(c) # "symlink" THEN [node |-> c, nlinks |-> at.nlinks]
    ELSE IF isLast /\ ~followLast THEN [node |-> c, nlinks |-> at.nlinks]
    ELSE IF at.nlinks + 1 > MaxSymlinks
         THEN [node |-> NoNode, nlinks |-> at.nlinks]
    ELSE [node |-> LinkTarget(c), nlinks |-> at.nlinks + 1]

RECURSIVE ResolveFrom(_, _, _, _)
ResolveFrom(at, path, i, followLast) ==
    IF i > Len(path) THEN at.node
    ELSE CHOOSE n \in
            {ResolveFrom(next, path, j, followLast) :
                next \in {ResolveStep(at, path[i], i = Len(path), followLast)},
                j \in {i + 1}} : TRUE

Start == [node |-> NodeCwd, nlinks |-> 0]

Stat(path) == ResolveFrom(Start, path, 1, TRUE)
LStat(path) == ResolveFrom(Start, path, 1, FALSE)

\* the existence check left out
ExistsAlways(path) == TRUE

Exists(path) == Stat(path) # NoNode
IsFile(path) == NodeKind(Stat(path)) = "file"
IsDir(path) == NodeKind(Stat(path)) = "dir"
\* the symlink test never firing
IsSymlinkNever(path) == FALSE

IsSymlink(path) == NodeKind(LStat(path)) = "symlink"

\* Path::file_name: the last component unless it is not a normal one
HasFileName(path) == Len(path) > 0 /\ path[Len(path)] # CurDir
FileName(path) == path[Len(path)]

\* ------------------------------------------------------------- globs ----
\* Pattern::new: a string is a glob unless it holds an unclosed '['
PatternValid(pat) == \A i \in 1..Len(pat) : pat[i].t # "["

\* vec_pattern_to_glob unwraps every compilation: one bad pattern panics
VecPatternToGlobPanics(pattern_vec) ==
    \E i \in 1..Len(pattern_vec) : ~PatternValid(pattern_vec[i])

\* Pattern::matches on a whole name
RECURSIVE GlobMatchFrom(_, _, _, _)
GlobMatchFrom(pat, i, name, j) ==
    IF i > Len(pat) THEN j > Len(name)
    ELSE IF pat[i].t = "*"
         THEN \E k \in j..(Len(name) + 1) : GlobMatchFrom(pat, i + 1, name, k)
    ELSE IF j > Len(name) THEN FALSE
    ELSE IF pat[i].t = "?" THEN GlobMatchFrom(pat, i + 1, name, j + 1)
    ELSE /\ pat[i].t = "char"
         /\ pat[i].c = name[j]
         /\ GlobMatchFrom(pat, i + 1, name, j + 1)

PatternMatches(pat, name) == GlobMatchFrom(pat, 1, name, 1)

\* matches(): "yes" / "no", or "panic" when file_name() is None and unwrapped
Matches(pattern_vec, path) ==
    IF pattern_vec = <<>> THEN "no"
    ELSE IF ~HasFileName(path) THEN "panic"
    ELSE IF \E i \in 1..Len(pattern_vec) :
                PatternMatches(pattern_vec[i], FileName(path))
         THEN "yes"
    ELSE "no"

\* !m
Neg(m) == IF m = "yes" THEN "no" ELSE IF m = "no" THEN "yes" ELSE m

\* should_file_be_included with the exclude_dir test left out
ShouldFileBeIncludedNoExcludeDir(path) ==
    IF config.include = <<>> /\ config.exclude = <<>>
    THEN "yes"
    ELSE IF config.include # <<>> /\ IsFile(path)
         THEN Matches(config.include, path)
    ELSE Neg(Matches(config.exclude, path))

\* PathMatcher::should_file_be_included, with the matcher's three groups
\* taken from config
ShouldFileBeIncluded(path) ==
    IF config.include = <<>> /\ config.exclude = <<>>
    THEN IF IsFile(path) THEN "yes"
         ELSE Neg(Matches(config.exclude_dir, path))
    ELSE IF config.include # <<>> /\ IsFile(path)
         THEN Matches(config.include, path)
    ELSE IF IsFile(path)
         THEN Neg(Matches(config.exclude, path))
    ELSE LET first == Neg(Matches(config.exclude, path)) IN
         IF first # "yes" THEN first
         ELSE Neg(Matches(config.exclude_dir, path))

\* ------------------------------------------------------ directory walk ---
\* get_folder_content: the names read_dir yields; none when the directory
\* cannot be opened
FolderNames(path) ==
    LET n == Stat(path) IN
    IF NodeKind(n) # "dir" THEN {}
    ELSE IF n = NodeE /\ ~fs.ereadable THEN {}
    ELSE ChildNames(n)

\* the orders in which read_dir may yield the names
Listings(names) ==
    {order \in [1..Cardinality(names) -> names] :
        \A i, j \in 1..Cardinality(names) : i # j => order[i] # order[j]}

\* the body of the for loop over folder_content, entry by entry
RECURSIVE ProcessEntries(_, _, _, _, _)
ProcessEntries(top_folder, order, i, stack, found) ==
    IF i > Len(order) THEN [stack |-> stack, found |-> found, panic |-> FALSE]
    ELSE LET entry == Append(top_folder, order[i]) IN
         IF IsSymlink(entry) /\ ~config.include_symlinks
         THEN ProcessEntries(top_folder, order, i + 1, stack, found)
         ELSE \* inc is bound to the value of the one call the code makes
              CHOOSE out \in {
              IF inc = "panic"
              THEN [stack |-> stack, found |-> found, panic |-> TRUE]
              ELSE IF IsDir(entry)
                   THEN ProcessEntries(top_folder, order, i + 1,
                            IF inc = "yes" THEN Append(stack, entry) ELSE stack,
                            found)
              ELSE ProcessEntries(top_folder, order, i + 1, stack,
                       IF inc = "yes" THEN Append(found, entry) ELSE found)
              : inc \in {ShouldFileBeIncluded(entry)}} : TRUE

\* ---------------------------------------------------------------- sort ---
\* Ord for sequences of integers (the bytes of a name), -1 / 0 / 1
RECURSIVE CmpName(_, _, _)
CmpName(a, b, i) ==
    IF i > Len(a) /\ i > Len(b) THEN 0
    ELSE IF i > Len(a) THEN -1
    ELSE IF i > Len(b) THEN 1
    ELSE IF a[i] < b[i] THEN -1
    ELSE IF a[i] > b[i] THEN 1
    ELSE CmpName(a, b, i + 1)

\* Ord for Component: CurDir sorts before every Normal name
CmpComponent(a, b) == CmpName(a, b, 1)

\* Path::cmp: lexicographic over the components
RECURSIVE CmpPath(_, _, _)
CmpPath(p, q, i) ==
    IF i > Len(p) /\ i > Len(q) THEN 0
    ELSE IF i > Len(p) THEN -1
    ELSE IF i > Len(q) THEN 1
    ELSE IF CmpComponent(p[i], q[i]) # 0 THEN CmpComponent(p[i], q[i])
    ELSE CmpPath(p, q, i + 1)

\* the comparator without the component count
SortCmpPathOnly(path1, path2) == CmpPath(path1, path2, 1)

\* the comparator with the component count alone
SortCmpCountOnly(path1, path2) ==
    IF Len(path1) = Len(path2) THEN 0
    ELSE IF Len(path1) < Len(path2) THEN -1 ELSE 1

\* the closure given to sort_by
SortCmp(path1, path2) ==
    LET component_num1 == Len(path1)
        component_num2 == Len(path2)
    IN IF component_num1 = component_num2 THEN CmpPath(path1, path2, 1)
       ELSE IF component_num1 < component_num2 THEN -1 ELSE 1

\* slice::sort_by is a stable sort: the element at index i of s ends up
\* after the elements that compare less and after the equal ones that stood
\* before it
SortedPosition(s, i) ==
    1 + Cardinality({j \in 1..Len(s) :
                        \E c \in {SortCmp(s[j], s[i])} :
                            c < 0 \/ (c = 0 /\ j < i)})

SortBy(s) ==
    CHOOSE sorted \in
        {[k \in 1..Len(s) |-> s[CHOOSE i \in 1..Len(s) : position[i] = k]] :
            position \in {[i \in 1..Len(s) |-> SortedPosition(s, i)]}} : TRUE

\* -------------------------------------------------------------- inputs ---
PatA == <<Lit(1), AnySeq>>
PatB == <<Lit(2), AnyChar>>
PatBad == <<OpenBracket>>

PatternGroups == {<<>>, <<PatA>>, <<PatB>>}

ValidConfigs ==
    [recursive : BOOLEAN, include_symlinks : BOOLEAN,
     include : PatternGroups, exclude : PatternGroups,
     exclude_dir : PatternGroups]

NoPatterns(rec, sym) ==
    [recursive |-> rec, include_symlinks |-> sym, include |-> <<>>,
     exclude |-> <<>>, exclude_dir |-> <<>>]

BadConfigs ==
    {[NoPatterns(TRUE, FALSE) EXCEPT !.include = <<PatBad>>],
     [NoPatterns(TRUE, FALSE) EXCEPT !.exclude = <<PatA, PatBad>>],
     [NoPatterns(TRUE, TRUE) EXCEPT !.exclude_dir = <<PatBad>>]}

Configs == ValidConfigs \cup BadConfigs

\* ".", "ab" and "ab/a"
InitialPaths == {<<CurDir>>, <<NameAB>>, <<NameAB, NameA>>}

RECURSIVE SeqsUpTo(_, _)
SeqsUpTo(S, n) ==
    IF n = 0 THEN {<<>>}
    ELSE LET shorter == SeqsUpTo(S, n - 1) IN
         shorter \cup {Append(s, x) : s \in shorter, x \in S}

\* --------------------------------------------------------------- state ---
Init ==
    /\ fs \in FileSystems
    /\ config \in Configs
    /\ initial_files \in SeqsUpTo(InitialPaths, MaxPaths)
    /\ pc = "start"
    /\ idx = 1
    /\ folder_stack = <<>>
    /\ found_files = <<>>
    /\ result = <<>>
    /\ ret = <<>>

\* lines 138-142: the three pattern groups are compiled, or the call panics
PathMatcherNew ==
    /\ pc = "start"
    /\ pc' = IF \/ VecPatternToGlobPanics(config.include)
                \/ VecPatternToGlobPanics(config.exclude)
                \/ VecPatternToGlobPanics(config.exclude_dir)
             THEN "panicked" ELSE "next_file"
    /\ UNCHANGED <<fs, initial_files, config, idx, folder_stack, found_files,
                   result, ret>>

\* lines 145-162: the flat_map closure up to the while loop
VisitInitialFile ==
    /\ pc = "next_file"
    /\ idx <= Len(initial_files)
    /\ LET path == initial_files[idx] IN
       IF ~Exists(path)
       THEN /\ pc' = "panicked"
            /\ UNCHANGED <<idx, folder_stack, found_files, result>>
       ELSE IF IsFile(path)
       THEN LET inc == ShouldFileBeIncluded(path) IN
            /\ pc' = IF inc = "panic" THEN "panicked" ELSE "next_file"
            /\ idx' = IF inc = "panic" THEN idx ELSE idx + 1
            /\ result' = IF inc = "yes" THEN Append(result, path) ELSE result
            /\ UNCHANGED <<folder_stack, found_files>>
       ELSE IF IsDir(path) /\ ~config.recursive
       THEN /\ pc' = "panicked"
            /\ UNCHANGED <<idx, folder_stack, found_files, result>>
       ELSE /\ pc' = "walk"
            /\ folder_stack' = <<path>>
            /\ found_files' = <<>>
            /\ UNCHANGED <<idx, result>>
    /\ UNCHANGED <<fs, initial_files, config, ret>>

\* the top folder read but left on the stack
StackAfterPopKeepsTop(stack) == stack

\* folder_stack.pop(): what stays on the stack
StackAfterPop(stack) == SubSeq(stack, 1, Len(stack) - 1)

\* lines 164-181: one iteration of the while loop
PopFolder ==
    /\ pc = "walk"
    /\ folder_stack # <<>>
    /\ LET top_folder == folder_stack[Len(folder_stack)]
           rest == StackAfterPop(folder_stack)
           inc == ShouldFileBeIncluded(top_folder)
       IN IF inc = "panic"
          THEN /\ pc' = "panicked"
               /\ folder_stack' = rest
               /\ UNCHANGED found_files
          ELSE IF inc = "no"
          THEN /\ folder_stack' = rest
               /\ UNCHANGED <<pc, found_files>>
          ELSE \E order \in Listings(FolderNames(top_folder)) :
                 \E out \in {ProcessEntries(top_folder, order, 1, rest,
                                            found_files)} :
                    /\ pc' = IF out.panic THEN "panicked" ELSE "walk"
                    /\ folder_stack' = out.stack
                    /\ found_files' = out.found
    /\ UNCHANGED <<fs, initial_files, config, idx, result, ret>>

\* lines 164, 182-184: the stack is empty, the closure yields found_files
FinishWalk ==
    /\ pc = "walk"
    /\ folder_stack = <<>>
    /\ pc' = "next_file"
    /\ idx' = idx + 1
    /\ result' = result \o found_files
    /\ found_files' = <<>>
    /\ UNCHANGED <<fs, initial_files, config, folder_stack, ret>>

\* lines 185-194: every initial path is done; sort and return
SortResult ==
    /\ pc = "next_file"
    /\ idx > Len(initial_files)
    /\ pc' = "returned"
    /\ ret' = SortBy(result)
    /\ UNCHANGED <<fs, initial_files, config, idx, folder_stack, found_files,
                   result>>

Next ==
    \/ PathMatcherNew
    \/ VisitInitialFile
    \/ PopFolder
    \/ FinishWalk
    \/ SortResult

Spec == Init /\ [][Next]_vars

\* The same call on the configurations without include and exclude
\* patterns (every flag combination, every exclude_dir group, one invalid
\* glob).  The call is a single thread that keeps running until it returns
\* or panics: weak fairness of its next step.
LiveInit ==
    /\ Init
    /\ config.include = <<>>
    /\ config.exclude = <<>>

LiveSpec == LiveInit /\ [][Next]_vars /\ WF_vars(Next)

\* ===================================================== properties =========
Returned == pc = "returned"
Panicked == pc = "panicked"

Prefix(path, m) == SubSeq(path, 1, m)
IsPrefix(p, q) == Len(p) <= Len(q) /\ Prefix(q, Len(p)) = p

\* the base name of path matches a pattern of the group
BaseNameMatches(group, path) ==
    /\ HasFileName(path)
    /\ \E i \in 1..Len(group) : PatternMatches(group[i], FileName(path))

\* what the path refers to after symlinks are followed / without following
TargetKind(path) == NodeKind(ResolveFrom(Start, path, 1, TRUE))
EntryKind(path) == NodeKind(ResolveFrom(Start, path, 1, FALSE))

InRet(path) == \E i \in 1..Len(ret) : ret[i] = path

\* C1 (as claimed): every returned path refers to a regular file, directly
\* or through symlinks; nothing that is neither file nor directory is
\* returned.
C1_OnlyRegularFiles ==
    Returned => \A i \in 1..Len(ret) : TargetKind(ret[i]) = "file"

\* C1, the part the code keeps: no returned path refers to a directory.
C1_NoDirectoryReturned ==
    Returned => \A i \in 1..Len(ret) : TargetKind(ret[i]) # "dir"

\* C2 (as claimed): with include_symlinks = false no returned path is a
\* symlink or lies below a symlinked directory, initial paths included.
C2_NoSymlinkAnywhere ==
    (Returned /\ ~config.include_symlinks) =>
        \A i \in 1..Len(ret) : \A m \in 1..Len(ret[i]) :
            EntryKind(Prefix(ret[i], m)) # "symlink"

\* C2 (amended): with include_symlinks = false every returned path descends
\* from an initial path below which none of its components is a symlink;
\* the initial path itself may be a symlink and is followed.
C2_NoSymlinkBelowInitialPath ==
    (Returned /\ ~config.include_symlinks) =>
        \A i \in 1..Len(ret) : \E k \in 1..Len(initial_files) :
            /\ IsPrefix(initial_files[k], ret[i])
            /\ \A m \in (Len(initial_files[k]) + 1)..Len(ret[i]) :
                   EntryKind(Prefix(ret[i], m)) # "symlink"

C2_Witness ==
    /\ Returned
    /\ ~config.include_symlinks
    /\ fs.xkind = "linkdir"
    /\ initial_files = <<<<NameAB>>, <<NameAB, NameA>>>>
    /\ InRet(<<NameAB, NameBA>>)
    /\ InRet(<<NameAB, NameA, NameBA>>)

\* the file filter alone: what include and exclude say about a regular file
FileWanted(path) ==
    IF config.include # <<>> THEN BaseNameMatches(config.include, path)
    ELSE ~BaseNameMatches(config.exclude, path)

EntryNames == {NameA, NameB, NameAB, NameBA, NameBB}

\* C3: with a non-empty exclude_dir group, every returned path descends
\* from an initial path such that no directory from that initial path down
\* to the file's parent has a base name matching exclude_dir; and a regular
\* file, directly named or listed in an initial directory that is walked,
\* is kept or dropped by include/exclude alone, also when its own name
\* matches exclude_dir.
C3_ExcludeDirPrunes ==
    (Returned /\ config.exclude_dir # <<>>) =>
        /\ \A i \in 1..Len(ret) : \E k \in 1..Len(initial_files) :
              /\ IsPrefix(initial_files[k], ret[i])
              /\ \A m \in Len(initial_files[k])..(Len(ret[i]) - 1) :
                     ~BaseNameMatches(config.exclude_dir, Prefix(ret[i], m))
        /\ \A k \in 1..Len(initial_files) :
              TargetKind(initial_files[k]) = "file" =>
                  (InRet(initial_files[k]) <=> FileWanted(initial_files[k]))
        /\ \A k \in 1..Len(initial_files) : \A name \in EntryNames :
              LET root == initial_files[k]
                  entry == Append(root, name)
              IN (/\ TargetKind(root) = "dir"
                  /\ ShouldFileBeIncluded(root) = "yes"
                  /\ TargetKind(entry) = "file"
                  /\ (EntryKind(entry) = "symlink" => config.include_symlinks))
                 => (InRet(entry) <=> FileWanted(entry))

C3_Witness ==
    /\ Returned
    /\ config.exclude_dir = <<PatB>>
    /\ fs.ereadable
    /\ fs.xkind = "file"
    /\ initial_files = <<<<NameAB>>, <<NameAB, NameA>>>>
    /\ InRet(<<NameAB, NameBA>>)
    /\ ~InRet(<<NameAB, NameBB, NameBA>>)

\* C4 (as claimed): with a non-empty include group every returned path has
\* a base name matching include.
C4_ResultMatchesInclude ==
    (Returned /\ config.include # <<>>) =>
        \A i \in 1..Len(ret) : BaseNameMatches(config.include, ret[i])

\* C5: the returned sequence is ordered by number of components, then by
\* full-path comparison, over all initial paths together.
C5_Ordered ==
    Returned =>
        \A i, j \in 1..Len(ret) : i < j =>
            \/ Len(ret[i]) < Len(ret[j])
            \/ Len(ret[i]) = Len(ret[j]) /\ CmpPath(ret[i], ret[j], 1) <= 0

C5_Witness ==
    /\ Returned
    /\ Len(initial_files) = 2
    /\ initial_files[1] # initial_files[2]
    /\ result # ret
    /\ \E i, j \in 1..Len(ret) : Len(ret[i]) < Len(ret[j])
    /\ \E i, j \in 1..Len(ret) : Len(ret[i]) = Len(ret[j]) /\ ret[i] # ret[j]

\* an initial path that makes the call fail
Missing(path) == TargetKind(path) = "none"
NeedsRecursive(path) == TargetKind(path) = "dir" /\ ~config.recursive

\* C6: when an initial path does not exist, or is a directory while
\* recursive is false, the call never returns, wherever the path stands in
\* the list; and nothing is handed to the caller before the call returns.
C6_NoResultOnFatalPath ==
    /\ Returned => \A k \in 1..Len(initial_files) :
                      ~Missing(initial_files[k])
                      /\ ~NeedsRecursive(initial_files[k])
    /\ ~Returned => ret = <<>>

C6_Witness ==
    /\ Panicked
    /\ idx = 2
    /\ result # <<>>
    /\ fs.xkind = "absent"
    /\ Missing(initial_files[2])

\* C7 (as claimed): the call panics only for an invalid glob, a missing
\* initial path or a directory without recursive.
C7_OnlyDocumentedFatal ==
    Panicked =>
        \/ \E g \in {config.include, config.exclude, config.exclude_dir} :
              \E i \in 1..Len(g) : ~PatternValid(g[i])
        \/ \E k \in 1..Len(initial_files) :
              Missing(initial_files[k]) \/ NeedsRecursive(initial_files[k])

\* the walk with every directory listed in one fixed order
CanonicalListing(names) == CHOOSE order \in Listings(names) : TRUE

RECURSIVE RefLoop(_, _)
RefLoop(stack, found) ==
    IF stack = <<>> THEN found
    ELSE LET top_folder == stack[Len(stack)]
             rest == SubSeq(stack, 1, Len(stack) - 1)
         IN IF ShouldFileBeIncluded(top_folder) # "yes"
            THEN RefLoop(rest, found)
            ELSE LET out == ProcessEntries(top_folder,
                                CanonicalListing(FolderNames(top_folder)),
                                1, rest, found)
                 IN RefLoop(out.stack, out.found)

RefFiles(path) ==
    IF TargetKind(path) = "file"
    THEN (IF ShouldFileBeIncluded(path) = "yes" THEN <<path>> ELSE <<>>)
    ELSE RefLoop(<<path>>, <<>>)

RECURSIVE RefConcat(_)
RefConcat(k) ==
    IF k = 0 THEN <<>>
    ELSE RefConcat(k - 1) \o RefFiles(initial_files[k])

\* C8: whatever order the directory listings come in, the returned sequence
\* is the one obtained with every directory listed in one fixed order.
C8_ListingOrderIrrelevant ==
    Returned => ret = SortBy(RefConcat(Len(initial_files)))

C8_Witness ==
    /\ Returned
    /\ Len(ret) >= 3
    /\ result # RefConcat(Len(initial_files))

\* C9 (as claimed): a directory about to be walked is rejected exactly when
\* its base name matches exclude_dir.
C9_DirectoryByExcludeDirOnly ==
    (pc = "walk" /\ folder_stack # <<>>) =>
        LET top_folder == folder_stack[Len(folder_stack)] IN
        (TargetKind(top_folder) = "dir" /\ HasFileName(top_folder)) =>
            (ShouldFileBeIncluded(top_folder) = "no"
                <=> BaseNameMatches(config.exclude_dir, top_folder))

\* C10: the call terminates: it returns or panics.
C10_Terminates == <>(Returned \/ Panicked)

C10_Witness ==
    /\ Returned
    /\ config.include_symlinks
    /\ fs.xkind = "linkdir"
    /\ InRet(<<NameAB, NameA, NameBB, NameBA>>)

=============================================================================
